---- MODULE Spec2Model ----
(***************************************************************************)
(* SMS API service (DimaSculp/SMS-API): the number-allocation and          *)
(* activation-lifecycle engine.                                            *)
(*                                                                         *)
(* The store is one SQLite connection (MaxOpenConns = 1), so every SQL     *)
(* statement is one atomic step; the handlers of concurrent requests       *)
(* interleave between statements.  The repository has two builds of the    *)
(* handlers: the pooled one (sync.Pool request objects, the availability   *)
(* mark, the release and the SMS append run in goroutines) and the plain   *)
(* one (the same statements, run synchronously).  "pooled" says which one  *)
(* is running.                                                             *)
(***************************************************************************)
EXTENDS Integers, Sequences, FiniteSets, TLC

VARIABLES pooled, available, activations, sms_messages, now, faults,
          nreq, pc, req, loc, resp, gpc, gval, pool,
          pfNumber, pfList, pfResult,
          lsId, lsResult,
          rtPc, rtAttempt, rtErrs, rtWaits, rtCtx, rtResult, rtTook

storeVars == <<available, activations, sms_messages, now, faults>>
handlerVars == <<nreq, pc, req, loc, resp>>
goVars == <<gpc, gval, pool>>
pfVars == <<pfNumber, pfList, pfResult>>
lsVars == <<lsId, lsResult>>
rtVars == <<rtPc, rtAttempt, rtErrs, rtWaits, rtCtx, rtResult, rtTook>>
auxVars == <<pfVars, lsVars, rtVars>>
vars == <<pooled, available, activations, sms_messages, now, faults,
          nreq, pc, req, loc, resp, gpc, gval, pool,
          pfNumber, pfList, pfResult,
          lsId, lsResult,
          rtPc, rtAttempt, rtErrs, rtWaits, rtCtx, rtResult, rtTook>>

(***************************************************************************)
(* Bounds.                                                                 *)
(***************************************************************************)
MaxRequests == 2
MaxRepeat == 4
MaxLifecycle == 3
MaxSms == 3
MaxSequential == 3
MaxFaults == 1

Max(a, b) == IF a > b THEN a ELSE b

Handlers == 1..Max(Max(MaxRequests, MaxRepeat), Max(MaxLifecycle, MaxSms))

(***************************************************************************)
(* Strings are sequences of one-character strings.  A uint64 phone number  *)
(* is held as two decimal limbs <<hi, lo>> = hi * 10^LoDigits + lo.        *)
(***************************************************************************)
LoDigits == 6
DigitChars == <<"0", "1", "2", "3", "4", "5", "6", "7", "8", "9">>

RECURSIVE Pow10(_)
Pow10(k) == IF k = 0 THEN 1 ELSE 10 * Pow10(k - 1)

RECURSIVE Digits(_)
Digits(n) ==
    IF n < 10 THEN <<DigitChars[n + 1]>>
    ELSE Digits(n \div 10) \o <<DigitChars[(n % 10) + 1]>>

PadLo(lo) == [i \in 1..LoDigits |-> DigitChars[((lo \div Pow10(LoDigits - i)) % 10) + 1]]

\* strconv.FormatUint(n, 10): the decimal digits, no sign, no leading zero
FormatUint(v) == IF v[1] = 0 THEN Digits(v[2]) ELSE Digits(v[1]) \o PadLo(v[2])

\* strings.Contains in the place of strings.HasPrefix
HasPrefix_Contains(s, prefix) ==
    \E k \in 1..(Len(s) + 1) :
        /\ k + Len(prefix) - 1 <= Len(s)
        /\ SubSeq(s, k, k + Len(prefix) - 1) = prefix

\* strings.HasPrefix(s, prefix)
HasPrefix(s, prefix) ==
    /\ Len(s) >= Len(prefix)
    /\ SubSeq(s, 1, Len(prefix)) = prefix

\* the loop comparing the whole number with each entry (numberStr == prefix)
Excluded_WholeNumber(number, prefixes) ==
    \E i \in 1..Len(prefixes) : FormatUint(number) = prefixes[i]

\* the loop over req.ExceptionPhoneSet
Excluded(number, prefixes) ==
    \E i \in 1..Len(prefixes) : HasPrefix(FormatUint(number), prefixes[i])

(***************************************************************************)
(* Seeded tables.                                                          *)
(***************************************************************************)
Services == <<"vk", "ok", "wa", "tg", "fb">>

PhoneNumbers == <<
    [number |-> <<79157, 891133>>, country |-> "rus", operator |-> "any"],
    [number |-> <<79181, 234567>>, country |-> "rus", operator |-> "any"],
    [number |-> <<998901, 234567>>, country |-> "uzb", operator |-> "any"] >>

NumIds == 1..Len(PhoneNumbers)

TerminalStatus == 3

(***************************************************************************)
(* Requests.                                                               *)
(***************************************************************************)
ZeroReq == [method |-> "", json |-> FALSE, key |-> "",
            action |-> "", country |-> "", operator |-> "", service |-> "",
            sum |-> 0, prefixes |-> <<>>, activationId |-> 0, status |-> 0,
            sms |-> ""]

\* DefaultConfig().APIKey
APIKey == "qwerty123"

\* a POST request whose body is a JSON object carrying the configured key
ApiReq == [ZeroReq EXCEPT !.method = "POST", !.json = TRUE, !.key = APIKey]

GetNumberReq(c, s, m, p) ==
    [ApiReq EXCEPT !.action = "GET_NUMBER", !.country = c, !.operator = "any",
                    !.service = s, !.sum = m, !.prefixes = p]

GetNumberRequests ==
    { GetNumberReq("rus", "tg", 20, <<>>),
      GetNumberReq("rus", "tg", 20, << <<"7", "9", "1", "8">>, <<"7", "9", "2", "8", "1">> >>),
      GetNumberReq("uzb", "vk", 5, <<>>),
      GetNumberReq("uzb", "zz", 5, <<>>) }

FinishRequests ==
    { [ApiReq EXCEPT !.action = "FINISH_ACTIVATION", !.activationId = a, !.status = s] :
        a \in 1..2, s \in {1, TerminalStatus} }

PushSMSRequests ==
    { [ApiReq EXCEPT !.action = "PUSH_SMS", !.activationId = a, !.sms = "code"] :
        a \in 1..2 }

Requests == GetNumberRequests \cup FinishRequests \cup PushSMSRequests

\* a handler's locals; answer is the response a pooled handler is about to
\* send; prevStatus and prevAvailable record, for the properties, the status
\* of the activation and the flag of its number as UpdateActivationStatus
\* found them, and before the calls that had returned when a PUSH_SMS call
\* was made
ZeroLoc == [phoneNumber |-> 0, serviceID |-> 0, activationID |-> 0, obj |-> 0,
            answer |-> "", prevStatus |-> -1, prevAvailable |-> TRUE,
            before |-> {}]

NoResp == [status |-> "", number |-> <<0, 0>>, activationId |-> 0, countryList |-> <<>>]

Resp(s) == [NoResp EXCEPT !.status = s]

(***************************************************************************)
(* Store statements (database/queries.go).                                 *)
(***************************************************************************)
\* the count taken over all numbers, available or not
GetAvailableServices_AllNumbers(av) ==
    LET groups == {<<PhoneNumbers[n].country, PhoneNumbers[n].operator>> : n \in NumIds}
    IN { [country |-> g[1], operator |-> g[2], service |-> Services[i],
          count |-> Cardinality({n \in NumIds : /\ PhoneNumbers[n].country = g[1]
                                               /\ PhoneNumbers[n].operator = g[2]})] :
         g \in groups, i \in 1..Len(Services) }

\* SELECT c.code, pn.operator, srv.code, COUNT(*) ... WHERE pn.available = TRUE
\* GROUP BY c.code, pn.operator, srv.code: one row for every country and
\* operator that has an available number and every service
GetAvailableServices(av) ==
    LET avail == {n \in NumIds : av[n]}
        groups == {<<PhoneNumbers[n].country, PhoneNumbers[n].operator>> : n \in avail}
    IN { [country |-> g[1], operator |-> g[2], service |-> Services[i],
          count |-> Cardinality({n \in avail : /\ PhoneNumbers[n].country = g[1]
                                               /\ PhoneNumbers[n].operator = g[2]})] :
         g \in groups, i \in 1..Len(Services) }

\* the rows.Next loop of GetAvailableServices: the nested map
\* countryMap[country][operator][service] = count built from the rows
CountryMap(rows) ==
    [c \in {x.country : x \in rows} |->
        [o \in {x.operator : x \in {y \in rows : y.country = c}} |->
            [sv \in {x.service : x \in {y \in rows : y.country = c /\ y.operator = o}} |->
                (CHOOSE x \in rows : /\ x.country = c
                                      /\ x.operator = o
                                      /\ x.service = sv).count]]]

\* for country, operators := range countryMap: one CountryList entry for
\* every country, in the order the map iteration happens to take
CountryLists(countryMap) ==
    LET cs == DOMAIN countryMap
        orders == {f \in [1..Cardinality(cs) -> cs] :
                      \A i, j \in 1..Cardinality(cs) : f[i] = f[j] => i = j}
    IN { [i \in 1..Cardinality(cs) |->
             [country |-> f[i], operatorMap |-> countryMap[f[i]]]] : f \in orders }

\* the operator not looked at
GetAvailableNumber_AnyOperator(av, country, operator) ==
    { n \in NumIds : PhoneNumbers[n].country = country /\ av[n] }

\* SELECT ... WHERE c.code = ? AND pn.operator = ? AND pn.available = TRUE
\* ORDER BY RANDOM() LIMIT 1: the rows the one candidate is drawn from
GetAvailableNumber(av, country, operator) ==
    { n \in NumIds : /\ PhoneNumbers[n].country = country
                     /\ PhoneNumbers[n].operator = operator
                     /\ av[n] }

\* the lookup falling back to the first service when the code is unknown
GetServiceByCode_Default(serviceCode) ==
    IF \E i \in 1..Len(Services) : Services[i] = serviceCode
    THEN CHOOSE i \in 1..Len(Services) : Services[i] = serviceCode
    ELSE 1

\* SELECT id ... FROM services WHERE code = ?: the id, or 0 for sql.ErrNoRows
GetServiceByCode(serviceCode) ==
    IF \E i \in 1..Len(Services) : Services[i] = serviceCode
    THEN CHOOSE i \in 1..Len(Services) : Services[i] = serviceCode
    ELSE 0

\* the insert also writing finished_at, as UpdateActivationStatus does
CreateActivation_Finished(acts, numberID, serviceID, sum, t) ==
    Append(acts, [number_id |-> numberID, service_id |-> serviceID,
                  status |-> 0, sum |-> sum, created_at |-> t,
                  finished_at |-> t])

\* INSERT INTO activations (number_id, service_id, sum, created_at): status
\* takes its default 0 and finished_at stays NULL (0); the AUTOINCREMENT id
\* of the row is its position
CreateActivation(acts, numberID, serviceID, sum, t) ==
    Append(acts, [number_id |-> numberID, service_id |-> serviceID,
                  status |-> 0, sum |-> sum, created_at |-> t,
                  finished_at |-> 0])

\* UPDATE phone_numbers SET available = ? WHERE id = ?
SetNumberAvailable(av, numberID, b) ==
    IF numberID \in DOMAIN av THEN [av EXCEPT ![numberID] = b] ELSE av

\* the update writing NULL into finished_at unless the status is terminal
UpdateActivationStatus_NullUnlessTerminal(acts, activationID, status, t) ==
    IF activationID \in DOMAIN acts
    THEN [acts EXCEPT ![activationID].status = status,
                      ![activationID].finished_at =
                          IF status = TerminalStatus THEN t ELSE 0]
    ELSE acts

\* the update writing finished_at only with the terminal status
UpdateActivationStatus_TerminalOnly(acts, activationID, status, t) ==
    IF activationID \in DOMAIN acts
    THEN [acts EXCEPT ![activationID].status = status,
                      ![activationID].finished_at =
                          IF status = TerminalStatus THEN t ELSE @]
    ELSE acts

\* UPDATE activations SET status = ?, finished_at = ? WHERE id = ?
UpdateActivationStatus(acts, activationID, status, t) ==
    IF activationID \in DOMAIN acts
    THEN [acts EXCEPT ![activationID].status = status,
                      ![activationID].finished_at = t]
    ELSE acts

\* RowsAffected() of that UPDATE
RowsAffected(acts, activationID) ==
    IF activationID \in DOMAIN acts THEN 1 ELSE 0

\* UPDATE phone_numbers SET available = TRUE
\* WHERE id = (SELECT number_id FROM activations WHERE id = ?)
MakeNumberAvailableByActivation(av, acts, activationID) ==
    IF activationID \in DOMAIN acts
    THEN SetNumberAvailable(av, acts[activationID].number_id, TRUE)
    ELSE av

\* SELECT 1 FROM activations WHERE id = ? LIMIT 1
CheckActivationExists(acts, activationID) == activationID \in DOMAIN acts

\* INSERT INTO sms_messages (activation_id, text, received_at)
StoreSMS(msgs, activationID, smsText, t) ==
    Append(msgs, [activation_id |-> activationID, text |-> smsText,
                  received_at |-> t])

\* a statement succeeds, or the store fails it (locked, busy, I/O)
StmtOutcomes == IF faults < MaxFaults THEN {TRUE, FALSE} ELSE {TRUE}

Fails(ok) == faults' = IF ok THEN faults ELSE faults + 1


(***************************************************************************)
(* Handlers (handlers.go, both builds).  A step is one SQL statement with  *)
(* the handler-local code around it: decoding the request in front of the  *)
(* first statement, writing the response behind the last one.              *)
(***************************************************************************)
Active(h) == pc[h] \notin {"idle", "done"}

\* what a goroutine finds in pooled request object o: the request of the
\* handler that holds it, or the zero value the deferred reset left
ObjVal(o) ==
    IF \E h \in Handlers : Active(h) /\ loc[h].obj = o
    THEN req[CHOOSE h \in Handlers : Active(h) /\ loc[h].obj = o]
    ELSE ZeroReq

Actions == {"GET_SERVICES", "GET_NUMBER", "FINISH_ACTIVATION", "PUSH_SMS"}

\* the action looked at before the key
Rejection_ActionFirst(r) ==
    IF r.method # "POST" THEN "405 Method Not Allowed"
    ELSE IF ~r.json THEN "INVALID_REQUEST"
    ELSE IF r.action \notin Actions THEN "INVALID_ACTION"
    ELSE IF r.key # APIKey THEN "INVALID_KEY"
    ELSE ""

\* the checks of HandleAPIRequest in front of the switch, and its default
\* case: what a request that reaches no handler is answered ("" when it
\* reaches one); a request that is no POST gets the HTTP status 405 and no
\* API status
Rejection(r) ==
    IF r.method # "POST" THEN "405 Method Not Allowed"
    ELSE IF ~r.json THEN "INVALID_REQUEST"
    ELSE IF r.key # APIKey THEN "INVALID_KEY"
    ELSE IF r.action \notin Actions THEN "INVALID_ACTION"
    ELSE ""

\* HandleAPIRequest dispatches the next request to its handler, which
\* decodes it; a workload W is the set of requests the clients may send and
\* how many of them
Begin(h, r, limit) ==
    /\ h = nreq + 1
    /\ nreq < limit
    /\ Rejection(r) = ""
    /\ nreq' = nreq + 1
    /\ req' = [req EXCEPT ![h] = r]

\* the request objects sync.Pool.Get can hand to handler h: a new one, or
\* one that a finished handler of the same kind put back
PoolGet(h, r) ==
    IF pooled THEN {h} \cup {o \in pool : req[o].action = r.action} ELSE {0}

\* the handler writes its response and returns
Respond(h, r) ==
    /\ pc' = [pc EXCEPT ![h] = "done"]
    /\ resp' = [resp EXCEPT ![h] = r]

Goto(h, label) ==
    /\ pc' = [pc EXCEPT ![h] = label]
    /\ UNCHANGED resp

\* the handler has its answer: the plain build sends it and returns; the
\* pooled build sends it too, but still holds its request object until the
\* deferred function has run
Answer(h, status, label) ==
    IF pooled THEN Goto(h, label) ELSE Respond(h, Resp(status))

\* HandleAPIRequest answers the next request itself: no handler is called
API_Reject(h, W) ==
    /\ \E r \in W.requests :
         /\ h = nreq + 1
         /\ nreq < W.limit
         /\ Rejection(r) # ""
         /\ nreq' = nreq + 1
         /\ req' = [req EXCEPT ![h] = r]
         /\ Respond(h, Resp(Rejection(r)))
    /\ UNCHANGED <<pooled, storeVars, loc, goVars, auxVars>>

\* the rows the loop of GetAvailableServices can lose: none, or one whose
\* Scan fails and which is skipped
LostRows(rows) ==
    {{}} \cup (IF faults < MaxFaults THEN {{x} : x \in rows} ELSE {})

\* HandleGetServices: GetAvailableServices, whose error is answered
\* DATABASE_ERROR, then the countryList built from the map it returns
GS_Query(h, W) ==
    /\ \E r \in W.requests, ok \in StmtOutcomes :
         /\ r.action = "GET_SERVICES"
         /\ Begin(h, r, W.limit)
         /\ IF ~ok
            THEN /\ Fails(ok)
                 /\ Respond(h, Resp("DATABASE_ERROR"))
            ELSE \E lost \in LostRows(GetAvailableServices(available)) :
                 \E countryList \in
                        CountryLists(CountryMap(GetAvailableServices(available) \ lost)) :
                   /\ Fails(lost = {})
                   /\ Respond(h, [Resp("SUCCESS") EXCEPT !.countryList = countryList])
    /\ UNCHANGED <<pooled, available, activations, sms_messages, now, loc,
                   goVars, auxVars>>

\* GetAvailableNumber, then the exclusion-prefix loop on the one candidate
GN_Select(h, W) ==
    /\ \E r \in W.requests, ok \in StmtOutcomes :
         LET matches == GetAvailableNumber(available, r.country, r.operator) IN
         /\ r.action = "GET_NUMBER"
         /\ Begin(h, r, W.limit)
         /\ Fails(ok)
         /\ IF ~ok \/ matches = {}
            THEN /\ Respond(h, Resp("NO_NUMBERS1"))
                 /\ UNCHANGED loc
            ELSE \E n \in matches :
                   /\ loc' = [loc EXCEPT ![h].phoneNumber = n]
                   /\ IF Excluded(PhoneNumbers[n].number, r.prefixes)
                      THEN Respond(h, Resp("NO_NUMBERS2"))
                      ELSE Goto(h, "gn_service")
    /\ UNCHANGED <<pooled, available, activations, sms_messages, now,
                   goVars, auxVars>>

\* GetServiceByCode
GN_Service(h) ==
    /\ pc[h] = "gn_service"
    /\ \E ok \in StmtOutcomes :
         LET id == GetServiceByCode(req[h].service) IN
         /\ Fails(ok)
         /\ IF ~ok \/ id = 0
            THEN /\ Respond(h, Resp("INVALID_SERVICE"))
                 /\ UNCHANGED loc
            ELSE /\ loc' = [loc EXCEPT ![h].serviceID = id]
                 /\ Goto(h, "gn_create")
    /\ UNCHANGED <<pooled, available, activations, sms_messages, now,
                   nreq, req, goVars, auxVars>>

Success(h, activationID) ==
    [status |-> "SUCCESS",
     number |-> PhoneNumbers[loc[h].phoneNumber].number,
     activationId |-> activationID,
     countryList |-> <<>>]

\* the error path of CreateActivation falling through to the mark
GN_CreateFailed_Marks(h) ==
    /\ Respond(h, Resp("DATABASE_ERROR"))
    /\ available' = SetNumberAvailable(available, loc[h].phoneNumber, FALSE)
    /\ UNCHANGED <<activations, now, loc, gpc>>

\* CreateActivation returned an error: DATABASE_ERROR, nothing else happens
GN_CreateFailed(h) ==
    /\ Respond(h, Resp("DATABASE_ERROR"))
    /\ UNCHANGED <<available, activations, now, loc, gpc>>

\* CreateActivation.  The pooled build then starts the goroutine that marks
\* the number unavailable and answers SUCCESS; the plain build goes on to
\* mark the number itself
GN_Create(h) ==
    /\ pc[h] = "gn_create"
    /\ \E ok \in StmtOutcomes :
         /\ Fails(ok)
         /\ IF ~ok
            THEN GN_CreateFailed(h)
            ELSE /\ activations' = CreateActivation(activations, loc[h].phoneNumber,
                                                    loc[h].serviceID, req[h].sum, now)
                 /\ now' = now + 1
                 /\ loc' = [loc EXCEPT ![h].activationID = Len(activations')]
                 /\ IF pooled
                    THEN /\ gpc' = [gpc EXCEPT ![h] = "read"]
                         /\ Respond(h, Success(h, Len(activations')))
                    ELSE /\ Goto(h, "gn_mark")
                         /\ UNCHANGED gpc
                 /\ UNCHANGED available
    /\ UNCHANGED <<pooled, sms_messages, nreq, req, gval, pool, auxVars>>

\* plain build: SetNumberAvailable(phoneNumber.ID, false), an error is
\* logged; then the SUCCESS response
GN_Mark(h) ==
    /\ pc[h] = "gn_mark"
    /\ \E ok \in StmtOutcomes :
         /\ Fails(ok)
         /\ available' = IF ok THEN SetNumberAvailable(available, loc[h].phoneNumber, FALSE)
                         ELSE available
    /\ Respond(h, Success(h, loc[h].activationID))
    /\ UNCHANGED <<pooled, activations, sms_messages, now, nreq, req, loc,
                   goVars, auxVars>>

\* pooled build: the goroutine of HandleGetNumber, an error is logged
G_Mark(h) ==
    /\ req[h].action = "GET_NUMBER"
    /\ gpc[h] = "read"
    /\ \E ok \in StmtOutcomes :
         /\ Fails(ok)
         /\ available' = IF ok THEN SetNumberAvailable(available, loc[h].phoneNumber, FALSE)
                         ELSE available
    /\ gpc' = [gpc EXCEPT ![h] = "done"]
    /\ UNCHANGED <<pooled, activations, sms_messages, now, handlerVars,
                   gval, pool, auxVars>>

\* a release after every Finish call
Releases_Always(status) == TRUE

\* if req.Status == 3
Releases(status) == status = TerminalStatus

\* UpdateActivationStatus, sql.ErrNoRows when no row matched; either error
\* is answered DATABASE_ERROR.  For status 3 the pooled build starts the
\* release goroutine, the plain build goes on to release the number itself.
\* A pooled handler holds the request object it took until it returns
FA_Update(h, W) ==
    /\ \E r \in W.requests, ok \in StmtOutcomes : \E o \in PoolGet(h, r) :
         /\ r.action = "FINISH_ACTIVATION"
         /\ Begin(h, r, W.limit)
         /\ Fails(ok)
         /\ pool' = pool \ {o}
         /\ IF ~ok \/ RowsAffected(activations, r.activationId) = 0
            THEN /\ Answer(h, "DATABASE_ERROR", "fa_return")
                 /\ loc' = [loc EXCEPT ![h].obj = o, ![h].answer = "DATABASE_ERROR"]
                 /\ UNCHANGED <<activations, now, gpc>>
            ELSE /\ activations' = UpdateActivationStatus(activations, r.activationId,
                                                          r.status, now)
                 /\ now' = now + 1
                 /\ loc' = [loc EXCEPT ![h].obj = o,
                                       ![h].answer = "SUCCESS",
                                       ![h].prevStatus = activations[r.activationId].status,
                                       ![h].prevAvailable =
                                           available[activations[r.activationId].number_id]]
                 /\ IF Releases(r.status)
                    THEN /\ Goto(h, IF pooled THEN "fa_return" ELSE "fa_release")
                         /\ gpc' = IF pooled THEN [gpc EXCEPT ![h] = "spawned"] ELSE gpc
                    ELSE /\ Answer(h, "SUCCESS", "fa_return")
                         /\ UNCHANGED gpc
    /\ UNCHANGED <<pooled, available, sms_messages, gval, auxVars>>

\* plain build: MakeNumberAvailableByActivation(req.ActivationId), an error
\* is logged; then the SUCCESS response
FA_Release(h) ==
    /\ pc[h] = "fa_release"
    /\ \E ok \in StmtOutcomes :
         /\ Fails(ok)
         /\ available' = IF ok
                         THEN MakeNumberAvailableByActivation(available, activations,
                                                              req[h].activationId)
                         ELSE available
    /\ Respond(h, Resp("SUCCESS"))
    /\ UNCHANGED <<pooled, activations, sms_messages, now, nreq, req, loc,
                   goVars, auxVars>>

\* pooled build: the response; the deferred function zeroes the request
\* object and puts it back while a goroutine may still hold it
FA_Return(h) ==
    /\ pc[h] = "fa_return"
    /\ Respond(h, Resp(loc[h].answer))
    /\ pool' = pool \cup {loc[h].obj}
    /\ UNCHANGED <<pooled, storeVars, nreq, req, loc, gpc, gval, auxVars>>

\* pooled build: a goroutine of HandleFinishActivation or HandlePushSMS
\* evaluates req.ActivationId and req.SMS through the captured pointer, at
\* whatever moment it gets to run
G_Read(h) ==
    /\ gpc[h] = "spawned"
    /\ gval' = [gval EXCEPT ![h] = [activationId |-> ObjVal(loc[h].obj).activationId,
                                    sms |-> ObjVal(loc[h].obj).sms]]
    /\ gpc' = [gpc EXCEPT ![h] = "read"]
    /\ UNCHANGED <<pooled, storeVars, handlerVars, pool, auxVars>>

\* pooled build: the goroutine of HandleFinishActivation, an error is logged
G_Release(h) ==
    /\ req[h].action = "FINISH_ACTIVATION"
    /\ gpc[h] = "read"
    /\ \E ok \in StmtOutcomes :
         /\ Fails(ok)
         /\ available' = IF ok
                         THEN MakeNumberAvailableByActivation(available, activations,
                                                              gval[h].activationId)
                         ELSE available
    /\ gpc' = [gpc EXCEPT ![h] = "done"]
    /\ UNCHANGED <<pooled, activations, sms_messages, now, handlerVars,
                   gval, pool, auxVars>>

\* CheckActivationExists; a store error is answered like a missing row
PS_Check(h, W) ==
    /\ \E r \in W.requests, ok \in StmtOutcomes : \E o \in PoolGet(h, r) :
         /\ r.action = "PUSH_SMS"
         /\ Begin(h, r, W.limit)
         /\ Fails(ok)
         /\ pool' = pool \ {o}
         /\ IF ~ok \/ ~CheckActivationExists(activations, r.activationId)
            THEN /\ Answer(h, "ACTIVATION_NOT_FOUND", "ps_return")
                 /\ loc' = [loc EXCEPT ![h].obj = o, ![h].answer = "ACTIVATION_NOT_FOUND",
                                       ![h].before = {g \in Handlers : pc[g] = "done"}]
                 /\ UNCHANGED gpc
            ELSE /\ Goto(h, IF pooled THEN "ps_return" ELSE "ps_store")
                 /\ loc' = [loc EXCEPT ![h].obj = o, ![h].answer = "SUCCESS",
                                       ![h].before = {g \in Handlers : pc[g] = "done"}]
                 /\ gpc' = IF pooled THEN [gpc EXCEPT ![h] = "spawned"] ELSE gpc
    /\ UNCHANGED <<pooled, available, activations, sms_messages, now,
                   gval, auxVars>>

\* plain build: StoreSMS(req.ActivationId, req.SMS), then the response
PS_Store(h) ==
    /\ pc[h] = "ps_store"
    /\ \E ok \in StmtOutcomes :
         /\ Fails(ok)
         /\ IF ~ok
            THEN /\ Respond(h, Resp("DATABASE_ERROR"))
                 /\ UNCHANGED <<sms_messages, now>>
            ELSE /\ sms_messages' = StoreSMS(sms_messages, req[h].activationId,
                                             req[h].sms, now)
                 /\ now' = now + 1
                 /\ Respond(h, Resp("SUCCESS"))
    /\ UNCHANGED <<pooled, available, activations, nreq, req, loc, goVars, auxVars>>

\* pooled build: the response; the deferred function zeroes the request
\* object and puts it back while a goroutine may still hold it
PS_Return(h) ==
    /\ pc[h] = "ps_return"
    /\ Respond(h, Resp(loc[h].answer))
    /\ pool' = pool \cup {loc[h].obj}
    /\ UNCHANGED <<pooled, storeVars, nreq, req, loc, gpc, gval, auxVars>>

\* pooled build: the goroutine of HandlePushSMS, an error is logged
G_StoreSMS(h) ==
    /\ req[h].action = "PUSH_SMS"
    /\ gpc[h] = "read"
    /\ \E ok \in StmtOutcomes :
         /\ Fails(ok)
         /\ IF ok
            THEN /\ sms_messages' = StoreSMS(sms_messages, gval[h].activationId,
                                             gval[h].sms, now)
                 /\ now' = now + 1
            ELSE UNCHANGED <<sms_messages, now>>
    /\ gpc' = [gpc EXCEPT ![h] = "done"]
    /\ UNCHANGED <<pooled, available, activations, handlerVars, gval, pool, auxVars>>

(***************************************************************************)
(* The service: every seeded number available, no activation, no message.  *)
(***************************************************************************)
PfIdle ==
    /\ pfNumber = <<0, 0>>
    /\ pfList = <<>>
    /\ pfResult = "idle"

\* no GetSMSByActivation call made
LsIdle ==
    /\ lsId = 0
    /\ lsResult = [status |-> "idle", messages |-> <<>>]

\* no ExecuteWithRetry call under way
RtIdle ==
    /\ rtPc = "idle"
    /\ rtAttempt = 0
    /\ rtErrs = <<>>
    /\ rtWaits = <<>>
    /\ rtCtx = "live"
    /\ rtResult = <<>>
    /\ rtTook = <<>>

Init ==
    /\ pooled \in BOOLEAN
    /\ available = [n \in NumIds |-> TRUE]
    /\ activations = <<>>
    /\ sms_messages = <<>>
    /\ now = 1
    /\ faults = 0
    /\ nreq = 0
    /\ pc = [h \in Handlers |-> "idle"]
    /\ req = [h \in Handlers |-> ZeroReq]
    /\ loc = [h \in Handlers |-> ZeroLoc]
    /\ resp = [h \in Handlers |-> NoResp]
    /\ gpc = [h \in Handlers |-> "none"]
    /\ gval = [h \in Handlers |-> [activationId |-> 0, sms |-> ""]]
    /\ pool = {}
    /\ PfIdle
    /\ LsIdle
    /\ RtIdle

Workload == [requests |-> Requests, limit |-> MaxRequests]

Next ==
    \E h \in Handlers :
        \/ GN_Select(h, Workload)
        \/ GN_Service(h)
        \/ GN_Create(h)
        \/ GN_Mark(h)
        \/ G_Mark(h)
        \/ FA_Update(h, Workload)
        \/ FA_Release(h)
        \/ FA_Return(h)
        \/ G_Read(h)
        \/ G_Release(h)
        \/ PS_Check(h, Workload)
        \/ PS_Store(h)
        \/ PS_Return(h)
        \/ G_StoreSMS(h)

Spec == Init /\ [][Next]_vars

(***************************************************************************)
(* One number rented over and over: allocations of the only "uzb" number   *)
(* and Finish(1, 3) calls, MaxRepeat requests in all.                      *)
(***************************************************************************)
RepeatWorkload ==
    [requests |-> { GetNumberReq("uzb", "vk", 5, <<>>),
                    [ApiReq EXCEPT !.action = "FINISH_ACTIVATION",
                                    !.activationId = 1, !.status = TerminalStatus] },
     limit |-> MaxRepeat]

NextRepeat ==
    \E h \in Handlers :
        \/ GN_Select(h, RepeatWorkload)
        \/ GN_Service(h)
        \/ GN_Create(h)
        \/ GN_Mark(h)
        \/ G_Mark(h)
        \/ FA_Update(h, RepeatWorkload)
        \/ FA_Release(h)
        \/ FA_Return(h)
        \/ G_Read(h)
        \/ G_Release(h)

RepeatSpec == Init /\ [][NextRepeat]_vars

(***************************************************************************)
(* Allocations one after the other: a client sends its request once every  *)
(* earlier call has been answered, MaxSequential requests in all; no call   *)
(* finishes an activation.                                                 *)
(***************************************************************************)
SequentialWorkload ==
    [requests |-> IF \A g \in 1..nreq : pc[g] = "done"
                  THEN { GetNumberReq("rus", "tg", 20, <<>>),
                         GetNumberReq("uzb", "vk", 5, <<>>) }
                  ELSE {},
     limit |-> MaxSequential]

NextSequential ==
    \E h \in Handlers :
        \/ GN_Select(h, SequentialWorkload)
        \/ GN_Service(h)
        \/ GN_Create(h)
        \/ GN_Mark(h)
        \/ G_Mark(h)

SequentialSpec == Init /\ [][NextSequential]_vars

(***************************************************************************)
(* One activation through its life: the first call allocates the "uzb"     *)
(* number; once it has returned the clients finish the activation, with    *)
(* status 1 or 3, and push a message to it, MaxLifecycle requests in all.  *)
(***************************************************************************)
PushSMSReq(a, text) ==
    [ApiReq EXCEPT !.action = "PUSH_SMS", !.activationId = a, !.sms = text]

FinishReq(a, status) ==
    [ApiReq EXCEPT !.action = "FINISH_ACTIVATION", !.activationId = a, !.status = status]

\* the clients allocate the "uzb" number first and send the other requests
\* once that call has returned
AfterAllocation(requests, limit) ==
    [requests |-> IF nreq = 0 THEN {GetNumberReq("uzb", "vk", 5, <<>>)}
                  ELSE IF pc[1] = "done" THEN requests
                  ELSE {},
     limit |-> limit]

LifecycleWorkload ==
    AfterAllocation({ FinishReq(1, 1), FinishReq(1, TerminalStatus),
                      PushSMSReq(1, "a") }, MaxLifecycle)

NextLifecycle ==
    \E h \in Handlers :
        \/ GN_Select(h, LifecycleWorkload)
        \/ GN_Service(h)
        \/ GN_Create(h)
        \/ GN_Mark(h)
        \/ G_Mark(h)
        \/ FA_Update(h, LifecycleWorkload)
        \/ FA_Release(h)
        \/ FA_Return(h)
        \/ G_Read(h)
        \/ G_Release(h)
        \/ PS_Check(h, LifecycleWorkload)
        \/ PS_Store(h)
        \/ PS_Return(h)
        \/ G_StoreSMS(h)

LifecycleSpec == Init /\ [][NextLifecycle]_vars

(***************************************************************************)
(* Messages pushed to one activation: the first call allocates the "uzb"   *)
(* number; once it has returned the clients push the messages "a" and "b"  *)
(* to activation 1 and "b" to activation 2, which does not exist, MaxSms   *)
(* requests in all.                                                        *)
(***************************************************************************)
SmsWorkload ==
    AfterAllocation({ PushSMSReq(1, "a"), PushSMSReq(1, "b"), PushSMSReq(2, "b") },
                    MaxSms)

NextSms ==
    \E h \in Handlers :
        \/ GN_Select(h, SmsWorkload)
        \/ GN_Service(h)
        \/ GN_Create(h)
        \/ GN_Mark(h)
        \/ G_Mark(h)
        \/ PS_Check(h, SmsWorkload)
        \/ PS_Store(h)
        \/ PS_Return(h)
        \/ G_Read(h)
        \/ G_StoreSMS(h)

SmsSpec == Init /\ [][NextSms]_vars

(***************************************************************************)
(* Requests of every kind in front of HandleAPIRequest: one request for    *)
(* each action, requests with the key "123" (among them the test document's *)
(* {"action": "GET_SERVICE", "key": "123"}), a request for the unknown      *)
(* action "GET_SERVICE" with the right key, a GET request and a body that   *)
(* is no JSON, MaxRequests requests in all.                                 *)
(***************************************************************************)
WrongKey(r) == [r EXCEPT !.key = "123"]

DispatchRequests ==
    LET known == { GetNumberReq("uzb", "vk", 5, <<>>),
                   FinishReq(1, TerminalStatus),
                   PushSMSReq(1, "a"),
                   [ApiReq EXCEPT !.action = "GET_SERVICES"] }
        unknown == [ApiReq EXCEPT !.action = "GET_SERVICE"]
    IN known
       \cup { WrongKey(GetNumberReq("uzb", "vk", 5, <<>>)),
              WrongKey(FinishReq(1, TerminalStatus)),
              WrongKey(unknown),
              unknown,
              [ApiReq EXCEPT !.method = "GET", !.action = "GET_SERVICES"],
              [ZeroReq EXCEPT !.method = "POST"] }

DispatchWorkload == [requests |-> DispatchRequests, limit |-> MaxRequests]

NextDispatch ==
    \E h \in Handlers :
        \/ API_Reject(h, DispatchWorkload)
        \/ GS_Query(h, DispatchWorkload)
        \/ GN_Select(h, DispatchWorkload)
        \/ GN_Service(h)
        \/ GN_Create(h)
        \/ GN_Mark(h)
        \/ G_Mark(h)
        \/ FA_Update(h, DispatchWorkload)
        \/ FA_Release(h)
        \/ FA_Return(h)
        \/ G_Read(h)
        \/ G_Release(h)
        \/ PS_Check(h, DispatchWorkload)
        \/ PS_Store(h)
        \/ PS_Return(h)
        \/ G_StoreSMS(h)

DispatchSpec == Init /\ [][NextDispatch]_vars

(***************************************************************************)
(* The catalog while numbers are rented: the clients allocate "rus" and    *)
(* "uzb" numbers and ask for the services, MaxRequests requests in all.     *)
(***************************************************************************)
ServicesWorkload ==
    [requests |-> { GetNumberReq("rus", "tg", 20, <<>>),
                    GetNumberReq("uzb", "vk", 5, <<>>),
                    [ApiReq EXCEPT !.action = "GET_SERVICES"] },
     limit |-> MaxRequests]

NextServices ==
    \E h \in Handlers :
        \/ GS_Query(h, ServicesWorkload)
        \/ GN_Select(h, ServicesWorkload)
        \/ GN_Service(h)
        \/ GN_Create(h)
        \/ GN_Mark(h)
        \/ G_Mark(h)

ServicesSpec == Init /\ [][NextServices]_vars

(***************************************************************************)
(* Allocations by country and operator: the seeded numbers all have the    *)
(* operator "any"; the clients ask for "rus" and "uzb" numbers of that      *)
(* operator, for a "rus" number of the operator "mts" and for a number of   *)
(* the country "kaz", MaxRequests requests in all.                          *)
(***************************************************************************)
SelectWorkload ==
    [requests |-> { GetNumberReq("rus", "tg", 20, <<>>),
                    GetNumberReq("uzb", "vk", 5, <<>>),
                    [GetNumberReq("rus", "tg", 20, <<>>) EXCEPT !.operator = "mts"],
                    GetNumberReq("kaz", "tg", 20, <<>>) },
     limit |-> MaxRequests]

NextSelect ==
    \E h \in Handlers :
        \/ GN_Select(h, SelectWorkload)
        \/ GN_Service(h)
        \/ GN_Create(h)
        \/ GN_Mark(h)
        \/ G_Mark(h)

SelectSpec == Init /\ [][NextSelect]_vars

(***************************************************************************)
(* Two rented numbers: the store holds the activations 1 and 2 on the two  *)
(* "rus" numbers, as earlier allocations left it, and the clients send      *)
(* Finish(1, 3) and Finish(2, 1), MaxRequests requests in all.              *)
(***************************************************************************)
HeldInit ==
    /\ pooled \in BOOLEAN
    /\ available = [n \in NumIds |-> n = 3]
    /\ activations = CreateActivation(CreateActivation(<<>>, 1, 4, 20, 1), 2, 4, 20, 2)
    /\ sms_messages = <<>>
    /\ now = 3
    /\ faults = 0
    /\ nreq = 0
    /\ pc = [h \in Handlers |-> "idle"]
    /\ req = [h \in Handlers |-> ZeroReq]
    /\ loc = [h \in Handlers |-> ZeroLoc]
    /\ resp = [h \in Handlers |-> NoResp]
    /\ gpc = [h \in Handlers |-> "none"]
    /\ gval = [h \in Handlers |-> [activationId |-> 0, sms |-> ""]]
    /\ pool = {}
    /\ PfIdle
    /\ LsIdle
    /\ RtIdle

ReleaseWorkload ==
    [requests |-> {FinishReq(1, TerminalStatus), FinishReq(2, 1)},
     limit |-> MaxRequests]

NextRelease ==
    \E h \in Handlers :
        \/ FA_Update(h, ReleaseWorkload)
        \/ FA_Release(h)
        \/ FA_Return(h)
        \/ G_Read(h)
        \/ G_Release(h)

ReleaseSpec == HeldInit /\ [][NextRelease]_vars

(***************************************************************************)
(* The exclusion-prefix test on its own: a number and a list of prefixes   *)
(* drawn from small sets, and the test applied to them.                    *)
(***************************************************************************)
Str3(a, b, c) == <<a, b, c>>

PfNumbers == { <<79157, 891133>>, <<79181, 234567>>, <<998901, 234567>>,
               <<7, 918>>, <<0, 7918>>, <<0, 0>> }

PfPrefixes == { <<>>, <<"7">>, Str3("7", "9", "1"), Str3("9", "1", "8"),
                <<"7", "9", "1", "8">>, <<"0", "7", "9", "1">>, <<"+", "7", "9">>,
                <<"7", "0", "0", "0", "9">>,
                <<"7", "9", "1", "5", "7", "8", "9", "1", "1", "3", "3">>,
                <<"7", "9", "1", "5", "7", "8", "9", "1", "1", "3", "3", "0">> }

MaxPrefixes == 2

PfLists == UNION { [1..k -> PfPrefixes] : k \in 0..MaxPrefixes }

PfInit ==
    /\ pooled = FALSE
    /\ available = [n \in NumIds |-> TRUE]
    /\ activations = <<>>
    /\ sms_messages = <<>>
    /\ now = 1
    /\ faults = 0
    /\ nreq = 0
    /\ pc = [h \in Handlers |-> "idle"]
    /\ req = [h \in Handlers |-> ZeroReq]
    /\ loc = [h \in Handlers |-> ZeroLoc]
    /\ resp = [h \in Handlers |-> NoResp]
    /\ gpc = [h \in Handlers |-> "none"]
    /\ gval = [h \in Handlers |-> [activationId |-> 0, sms |-> ""]]
    /\ pool = {}
    /\ pfNumber \in PfNumbers
    /\ pfList \in PfLists
    /\ pfResult = "idle"
    /\ LsIdle
    /\ RtIdle

\* lines 354-370 of HandleGetNumber on the candidate pfNumber
PfCheck ==
    /\ pfResult = "idle"
    /\ pfResult' = IF Excluded(pfNumber, pfList) THEN "NO_NUMBERS2" ELSE "passed"
    /\ UNCHANGED <<pooled, storeVars, handlerVars, goVars, pfNumber, pfList,
                   lsVars, rtVars>>

PrefixSpec == PfInit /\ [][PfCheck]_vars

(***************************************************************************)
(* GetSMSByActivation on its own: a store holding two activations and a    *)
(* sequence of message rows drawn from a small set (ids are positions;     *)
(* received_at need not grow with the id, the clock is read before the     *)
(* INSERT gets the connection), and one call of the query.                 *)
(***************************************************************************)
MaxMessages == 3

\* ORDER BY received_at DESC in the place of ASC
GetSMSByActivation_Descending(msgs, activationID) ==
    LET match == { i \in DOMAIN msgs : msgs[i].activation_id = activationID }
        n == Cardinality(match)
    IN  { [k \in 1..n |-> [id |-> p[k], activation_id |-> msgs[p[k]].activation_id,
                            text |-> msgs[p[k]].text,
                            received_at |-> msgs[p[k]].received_at]] :
            p \in { q \in [1..n -> match] :
                      /\ \A k, l \in 1..n : k # l => q[k] # q[l]
                      /\ \A k, l \in 1..n :
                           k < l => msgs[q[k]].received_at >= msgs[q[l]].received_at } }

\* SELECT id, activation_id, text, received_at FROM sms_messages
\* WHERE activation_id = ? ORDER BY received_at ASC, every row scanned and
\* appended: the sequences the query can return (rows with equal
\* received_at come in an order SQL does not fix)
GetSMSByActivation(msgs, activationID) ==
    LET match == { i \in DOMAIN msgs : msgs[i].activation_id = activationID }
        n == Cardinality(match)
    IN  { [k \in 1..n |-> [id |-> p[k], activation_id |-> msgs[p[k]].activation_id,
                            text |-> msgs[p[k]].text,
                            received_at |-> msgs[p[k]].received_at]] :
            p \in { q \in [1..n -> match] :
                      /\ \A k, l \in 1..n : k # l => q[k] # q[l]
                      /\ \A k, l \in 1..n :
                           k < l => msgs[q[k]].received_at <= msgs[q[l]].received_at } }

LsRows == [activation_id : 1..2, text : {"a", "b"}, received_at : 1..2]

LsStores == UNION { [1..k -> LsRows] : k \in 0..MaxMessages }

LsActivationIds == 1..3

LsInit ==
    /\ pooled = FALSE
    /\ available = [n \in NumIds |-> n = 3]
    /\ activations = CreateActivation(CreateActivation(<<>>, 1, 4, 20, 1), 2, 4, 20, 2)
    /\ sms_messages \in LsStores
    /\ now = 3
    /\ faults = 0
    /\ nreq = 0
    /\ pc = [h \in Handlers |-> "idle"]
    /\ req = [h \in Handlers |-> ZeroReq]
    /\ loc = [h \in Handlers |-> ZeroLoc]
    /\ resp = [h \in Handlers |-> NoResp]
    /\ gpc = [h \in Handlers |-> "none"]
    /\ gval = [h \in Handlers |-> [activationId |-> 0, sms |-> ""]]
    /\ pool = {}
    /\ PfIdle
    /\ LsIdle
    /\ RtIdle

\* one call of GetSMSByActivation; db.Query failing returns the error
LS_Query ==
    /\ lsResult.status = "idle"
    /\ \E id \in LsActivationIds, ok \in StmtOutcomes :
         /\ Fails(ok)
         /\ lsId' = id
         /\ IF ok
            THEN \E res \in GetSMSByActivation(sms_messages, id) :
                   lsResult' = [status |-> "ok", messages |-> res]
            ELSE lsResult' = [status |-> "error", messages |-> <<>>]
    /\ UNCHANGED <<pooled, available, activations, sms_messages, now,
                   handlerVars, goVars, pfVars, rtVars>>

ListSpec == LsInit /\ [][LS_Query]_vars

(***************************************************************************)
(* ExecuteWithRetry on its own (database.go).  An error is its message, a  *)
(* sequence of words, and the error it wraps, if any; the outcome of each  *)
(* ExecContext is drawn from the errors the store can give.  rtErrs keeps  *)
(* the outcome of every attempt made, rtWaits every backoff wait slept     *)
(* through, in milliseconds.                                               *)
(***************************************************************************)
maxRetries == 5
baseDelay == 100

\* context.WithTimeout(ctx, 10*time.Second), in milliseconds
attemptTimeout == 10000

NilError == [nil |-> TRUE, msg |-> <<>>, cause |-> <<>>]

\* errors.New(msg)
NewError(msg) == [nil |-> FALSE, msg |-> msg, cause |-> <<>>]

\* fmt.Errorf(prefix + ": %w", err)
Errorf_w(prefix, err) == [nil |-> FALSE, msg |-> prefix \o err.msg, cause |-> <<err>>]

\* strings.Contains(s, substr)
Contains(s, substr) ==
    \E k \in 1..(Len(s) + 1) :
        /\ k + Len(substr) - 1 <= Len(s)
        /\ SubSeq(s, k, k + Len(substr) - 1) = substr

\* every error taken for a lock
isRetryableError_Always(err) == TRUE

isRetryableError(err) ==
    \/ Contains(err.msg, <<"database", "is", "locked">>)
    \/ Contains(err.msg, <<"SQLITE_BUSY">>)
    \/ Contains(err.msg, <<"database", "table", "is", "locked">>)

\* ctx.Err()
CtxErr(c) ==
    IF c = "canceled" THEN NewError(<<"context", "canceled">>)
    ELSE NewError(<<"context", "deadline", "exceeded">>)

\* what the statement would do left to itself: its outcome and the time it
\* takes, in milliseconds: nil, lock and busy errors, a constraint
\* violation, each at once, and a statement that takes 15 s
StoreRuns ==
    { [err |-> NilError, ms |-> 1],
      [err |-> NewError(<<"database", "is", "locked">>), ms |-> 1],
      [err |-> NewError(<<"database", "is", "locked", "(5)", "(", "SQLITE_BUSY", ")">>),
       ms |-> 1],
      [err |-> NewError(<<"database", "table", "is", "locked">>), ms |-> 1],
      [err |-> NewError(<<"constraint", "failed:", "UNIQUE">>), ms |-> 1],
      [err |-> NilError, ms |-> 15000] }

\* the attempt's own context: a statement still running when the timeout
\* passes is cut off with the deadline's error
WithTimeout(run) ==
    IF run.ms >= attemptTimeout
    THEN [err |-> CtxErr("expired"), ms |-> attemptTimeout]
    ELSE run

\* what ExecContext can return while the caller's context is live
StoreErrors == { WithTimeout(run).err : run \in StoreRuns }

\* the statement runs under a context derived from the caller's: while that
\* is live the statement runs up to the timeout, once it is done ExecContext
\* returns its error without running the statement
ExecContext(c) ==
    IF c = "live" THEN { WithTimeout(run) : run \in StoreRuns }
    ELSE {[err |-> CtxErr(c), ms |-> 0]}

\* an attempt in progress when the caller's context becomes done: the
\* statement is interrupted, or it comes back first
Interrupted(c) == ExecContext("live") \cup {[err |-> CtxErr(c), ms |-> 1]}

\* the loop condition letting one more attempt through
LoopContinues_Inclusive(attempt) == attempt <= maxRetries

\* for attempt := 0; attempt < maxRetries; attempt++
LoopContinues(attempt) == attempt < maxRetries

\* a wait that grows by baseDelay with every attempt
Delay_Linear(attempt) == baseDelay * (attempt + 1)

\* baseDelay * time.Duration(1 << uint(attempt))
Delay(attempt) == baseDelay * (2 ^ attempt)

RetryInit ==
    /\ pooled = FALSE
    /\ available = [n \in NumIds |-> TRUE]
    /\ activations = <<>>
    /\ sms_messages = <<>>
    /\ now = 1
    /\ faults = 0
    /\ nreq = 0
    /\ pc = [h \in Handlers |-> "idle"]
    /\ req = [h \in Handlers |-> ZeroReq]
    /\ loc = [h \in Handlers |-> ZeroLoc]
    /\ resp = [h \in Handlers |-> NoResp]
    /\ gpc = [h \in Handlers |-> "none"]
    /\ gval = [h \in Handlers |-> [activationId |-> 0, sms |-> ""]]
    /\ pool = {}
    /\ PfIdle
    /\ LsIdle
    /\ rtPc = "loop"
    /\ rtAttempt = 0
    /\ rtErrs = <<>>
    /\ rtWaits = <<>>
    /\ rtCtx = "live"
    /\ rtResult = NilError
    /\ rtTook = <<>>

RtReturn(err) ==
    /\ rtPc' = "returned"
    /\ rtResult' = err

RtFrame == UNCHANGED <<pooled, storeVars, handlerVars, goVars, pfVars, lsVars>>

\* the three ifs after ExecContext, up to the wait
RtOutcome(run) ==
    /\ rtErrs' = Append(rtErrs, run.err)
    /\ rtTook' = Append(rtTook, run.ms)
    /\ IF run.err.nil
       THEN RtReturn(NilError) /\ UNCHANGED rtAttempt
       ELSE IF ~isRetryableError(run.err)
       THEN /\ RtReturn(Errorf_w(<<"database", "operation", "failed:">>, run.err))
            /\ UNCHANGED rtAttempt
       ELSE IF rtAttempt < maxRetries - 1
       THEN rtPc' = "wait" /\ UNCHANGED <<rtAttempt, rtResult>>
       ELSE /\ rtAttempt' = rtAttempt + 1
            /\ rtPc' = "loop"
            /\ UNCHANGED rtResult

\* the loop condition holds and ExecContext is called: under a live context
\* the statement starts, under a done one the call returns at once
RT_Begin ==
    /\ rtPc = "loop"
    /\ LoopContinues(rtAttempt)
    /\ IF rtCtx = "live"
       THEN /\ rtPc' = "exec"
            /\ UNCHANGED <<rtAttempt, rtErrs, rtTook, rtResult>>
       ELSE \E run \in ExecContext(rtCtx) : RtOutcome(run)
    /\ UNCHANGED <<rtWaits, rtCtx>>
    /\ RtFrame

\* ExecContext returns, then the three ifs
RT_Attempt ==
    /\ rtPc = "exec"
    /\ \E run \in (IF rtCtx = "live" THEN ExecContext(rtCtx) ELSE Interrupted(rtCtx)) :
         RtOutcome(run)
    /\ UNCHANGED <<rtWaits, rtCtx>>
    /\ RtFrame

\* the select: the timer fires and the loop goes on, or the caller's context
\* is done and its error is returned
RT_Wait ==
    /\ rtPc = "wait"
    /\ \/ /\ rtWaits' = Append(rtWaits, Delay(rtAttempt))
          /\ rtAttempt' = rtAttempt + 1
          /\ rtPc' = "loop"
          /\ UNCHANGED rtResult
       \/ /\ rtCtx # "live"
          /\ RtReturn(CtxErr(rtCtx))
          /\ UNCHANGED <<rtWaits, rtAttempt>>
    /\ UNCHANGED <<rtErrs, rtTook, rtCtx>>
    /\ RtFrame

\* the loop condition fails: "database locked after 5 attempts"
RT_GiveUp ==
    /\ rtPc = "loop"
    /\ ~LoopContinues(rtAttempt)
    /\ RtReturn(NewError(<<"database", "locked", "after">> \o Digits(maxRetries)
                              \o <<"attempts">>))
    /\ UNCHANGED <<rtAttempt, rtErrs, rtTook, rtWaits, rtCtx>>
    /\ RtFrame

\* the caller cancels the context, or its deadline passes
RT_CtxDone ==
    /\ rtPc \in {"loop", "exec", "wait"}
    /\ rtCtx = "live"
    /\ rtCtx' \in {"canceled", "expired"}
    /\ UNCHANGED <<rtPc, rtAttempt, rtErrs, rtTook, rtWaits, rtResult>>
    /\ RtFrame

NextRetry == RT_Begin \/ RT_Attempt \/ RT_Wait \/ RT_GiveUp \/ RT_CtxDone

\* the statement comes back, the timer fires, the loop goes on
RetrySpec ==
    /\ RetryInit
    /\ [][NextRetry]_vars
    /\ WF_vars(RT_Begin)
    /\ WF_vars(RT_Attempt)
    /\ WF_vars(RT_Wait)
    /\ WF_vars(RT_GiveUp)

(***************************************************************************)
(* Properties.                                                             *)
(***************************************************************************)
Started == 1..nreq

IsGetNumber(h) == req[h].action = "GET_NUMBER"

IsFinish(h) == req[h].action = "FINISH_ACTIVATION"

KnownService(code) == \E i \in 1..Len(Services) : Services[i] = code

Succeeded(h) == resp[h].status = "SUCCESS"

\* nothing is running: every handler has returned, every goroutine has ended
Quiescent ==
    \A h \in Handlers : ~Active(h) /\ gpc[h] \notin {"spawned", "read"}

\* the activations that hold number n: the rows on n whose status is not 3
Holders(n) ==
    { a \in DOMAIN activations : /\ activations[a].number_id = n
                                 /\ activations[a].status # TerminalStatus }

\* the calls so far are allocations for one country and operator, for a
\* known service and without exclusion prefixes, and the store has not failed
OnlyPlainAllocations ==
    /\ nreq >= 1
    /\ faults = 0
    /\ \A h \in Started :
         /\ IsGetNumber(h)
         /\ req[h].country = req[1].country
         /\ req[h].operator = req[1].operator
         /\ KnownService(req[h].service)
         /\ req[h].prefixes = <<>>

\* the M numbers of the pool that match the calls of OnlyPlainAllocations
MatchingPool ==
    { n \in NumIds : /\ PhoneNumbers[n].country = req[1].country
                     /\ PhoneNumbers[n].operator = req[1].operator }

\* C1: N concurrent allocations for the same country and operator against
\* M < N matching numbers: no two successful results carry the same number,
\* exactly M calls succeed and the other N - M answer NO_NUMBERS1.
C1_ConcurrentAllocationsDisjoint ==
    (OnlyPlainAllocations /\ Cardinality(MatchingPool) < nreq) =>
        /\ \A h1, h2 \in Started :
             (h1 # h2 /\ Succeeded(h1) /\ Succeeded(h2))
                 => resp[h1].number # resp[h2].number
        /\ Quiescent =>
             /\ Cardinality({h \in Started : Succeeded(h)}) = Cardinality(MatchingPool)
             /\ \A h \in Started : ~Succeeded(h) => resp[h].status = "NO_NUMBERS1"

\* C2: in every reachable state a number with available = false is
\* referenced by at most one activation whose status is not 3.
C2_UnavailableHasAtMostOneHolder ==
    \A n \in NumIds : ~available[n] => Cardinality(Holders(n)) <= 1

\* C3: after Finish(id, 3) has answered SUCCESS the number of the activation
\* gets available = true once the deferred operations have run, provided no
\* other allocation selected that number (the store not failing).
C3_FinishReleasesNumber ==
    \A h \in Handlers :
        ( /\ Quiescent
          /\ faults = 0
          /\ IsFinish(h) /\ req[h].status = TerminalStatus /\ Succeeded(h)
          /\ ~loc[h].prevAvailable
          /\ Cardinality({g \in Handlers : IsGetNumber(g) /\ loc[g].phoneNumber
                              = activations[req[h].activationId].number_id}) = 1 )
        => available[activations[req[h].activationId].number_id]

\* the release statement of Finish call h runs in this step
ReleaseStep(h) ==
    \/ pc[h] = "fa_release" /\ pc'[h] = "done"
    \/ IsFinish(h) /\ gpc[h] = "read" /\ gpc'[h] = "done"

\* another Finish call on the activation of call h is still running, or its
\* goroutine is
OtherFinishInFlight(h) ==
    \E g \in Handlers \ {h} :
        /\ IsFinish(g) /\ req[g].activationId = req[h].activationId
        /\ Active(g) \/ gpc[g] \in {"spawned", "read"}

\* C4: a second Finish(id, 3) on an activation already finished with status
\* 3 succeeds and its release leaves the available flag of the activation's
\* number as it was; stated for the case the claim names, the number having
\* been allocated again to another activation (the store not failing, no
\* allocation running).
C4_SecondFinishReleaseIsNoOp ==
    [][ \A h \in Handlers :
          ( /\ IsFinish(h) /\ req[h].status = TerminalStatus
            /\ loc[h].prevStatus = TerminalStatus
            /\ ~OtherFinishInFlight(h)
            /\ faults' = 0
            /\ Holders(activations[req[h].activationId].number_id) # {}
            /\ \A g \in Handlers : IsGetNumber(g) => ~Active(g) /\ gpc[g] # "read"
            /\ ReleaseStep(h) )
          => available'[activations[req[h].activationId].number_id]
               = available[activations[req[h].activationId].number_id] ]_vars

\* C5: in every reachable state a number with available = true is referenced
\* by no activation whose status is not 3.
C5_AvailableHasNoHolder ==
    \A n \in NumIds : available[n] => Holders(n) = {}

\* C6: in every reachable state, also after an allocation failed at any
\* step, a number with available = false is referenced by at least one
\* activation row.
C6_UnavailableHasActivation ==
    \A n \in NumIds :
        ~available[n] => \E a \in DOMAIN activations : activations[a].number_id = n

\* a number is marked unavailable and an allocation failed at its insert
C6_Witness ==
    /\ \E n \in NumIds : ~available[n]
    /\ \E h \in Handlers : IsGetNumber(h) /\ resp[h].status = "DATABASE_ERROR"

\* the decimal digits of a number, counted and read off by division
RECURSIVE NumDigitsOf(_)
NumDigitsOf(n) == IF n < 10 THEN 1 ELSE 1 + NumDigitsOf(n \div 10)

DecimalLength(v) ==
    IF v[1] = 0 THEN NumDigitsOf(v[2]) ELSE NumDigitsOf(v[1]) + LoDigits

\* the i-th digit of v from the left
DigitAt(v, i) ==
    LET k == DecimalLength(v) - i IN
    IF k < LoDigits THEN (v[2] \div Pow10(k)) % 10
    ELSE (v[1] \div Pow10(k - LoDigits)) % 10

\* p is, character by character, the leading digits of v
LeadingDigitsAre(v, p) ==
    /\ Len(p) <= DecimalLength(v)
    /\ \A i \in 1..Len(p) : p[i] = DigitChars[DigitAt(v, i) + 1]

\* the candidate of allocation h starts with one of its exclusion prefixes
CandidateExcluded(h) ==
    /\ IsGetNumber(h)
    /\ loc[h].phoneNumber # 0
    /\ \E i \in 1..Len(req[h].prefixes) :
         LeadingDigitsAre(PhoneNumbers[loc[h].phoneNumber].number, req[h].prefixes[i])

UnknownServiceCall(h) == IsGetNumber(h) /\ ~KnownService(req[h].service)

\* C7 as claimed: an allocation for an unknown service code fails with
\* INVALID_SERVICE, inserts no activation and changes no available flag.
C7_UnknownServiceAnswered ==
    \A h \in Handlers :
        (UnknownServiceCall(h) /\ pc[h] = "done" /\ faults = 0)
            => resp[h].status = "INVALID_SERVICE" /\ loc[h].activationID = 0

\* C7, amended: an allocation for an unknown service code never succeeds,
\* inserts no activation, starts no mark and changes no available flag; it
\* answers INVALID_SERVICE exactly when a candidate was selected and passed
\* the exclusion filter, and NO_NUMBERS1 or NO_NUMBERS2 when the selection
\* or the filter failed first.
C7_UnknownServiceCreatesNothing ==
    /\ [] \A h \in Handlers :
            UnknownServiceCall(h) =>
                /\ loc[h].activationID = 0
                /\ gpc[h] = "none"
                /\ pc[h] \in {"gn_service", "done"}
                /\ pc[h] = "done" =>
                     /\ resp[h].status \in {"NO_NUMBERS1", "NO_NUMBERS2", "INVALID_SERVICE"}
                     /\ resp[h].status = "INVALID_SERVICE"
                          <=> (loc[h].phoneNumber # 0 /\ ~CandidateExcluded(h))
                     /\ resp[h].status = "NO_NUMBERS2" <=> CandidateExcluded(h)
    /\ [][ \A h \in Handlers :
             (pc'[h] # pc[h] /\ req'[h].action = "GET_NUMBER"
                 /\ ~KnownService(req'[h].service))
             => activations' = activations /\ available' = available ]_vars

\* an unknown service code answered NO_NUMBERS1 with the store working
C7_Witness ==
    /\ faults = 0
    /\ \E h \in Handlers : UnknownServiceCall(h) /\ resp[h].status = "NO_NUMBERS1"

\* C8: when the one candidate starts with an exclusion prefix the call
\* answers NO_NUMBERS2 at once, whatever other numbers are available; it
\* creates no activation, starts no mark and changes no available flag.
C8_ExcludedCandidateRejected ==
    /\ [] \A h \in Handlers :
            CandidateExcluded(h) =>
                /\ pc[h] = "done"
                /\ resp[h].status = "NO_NUMBERS2"
                /\ loc[h].activationID = 0
                /\ gpc[h] = "none"
    /\ [][ \A h \in Handlers :
             (pc'[h] # pc[h] /\ CandidateExcluded(h)')
             => activations' = activations /\ available' = available ]_vars

\* a call answered NO_NUMBERS2 while a matching number that no prefix
\* excludes is available
C8_Witness ==
    \E h \in Handlers :
        /\ resp[h].status = "NO_NUMBERS2"
        /\ \E n \in GetAvailableNumber(available, req[h].country, req[h].operator) :
             \A i \in 1..Len(req[h].prefixes) :
                 ~LeadingDigitsAre(PhoneNumbers[n].number, req[h].prefixes[i])

Number79157891133 == <<79157, 891133>>

\* C9: the candidate is rejected if and only if some listed prefix equals,
\* character by character, the leading digits of the number's full decimal
\* string: 79157891133 is rejected by "791", not by "918", not by "7918".
C9_RejectedIffLeadingDigits ==
    pfResult # "idle" =>
        /\ pfResult = "NO_NUMBERS2"
             <=> \E i \in 1..Len(pfList) : LeadingDigitsAre(pfNumber, pfList[i])
        /\ pfNumber = Number79157891133 =>
             /\ pfList = <<Str3("7", "9", "1")>> => pfResult = "NO_NUMBERS2"
             /\ pfList = <<Str3("9", "1", "8")>> => pfResult = "passed"
             /\ pfList = << <<"7", "9", "1", "8">> >> => pfResult = "passed"

\* 79157891133 rejected by the second prefix of the list "918", "791"
C9_Witness ==
    /\ pfNumber = Number79157891133
    /\ pfList = <<Str3("9", "1", "8"), Str3("7", "9", "1")>>
    /\ pfResult = "NO_NUMBERS2"

\* the allocations that got an activation id
Allocated == { h \in Handlers : IsGetNumber(h) /\ loc[h].activationID # 0 }

\* C10: every successful allocation creates exactly one activation row, with
\* status 0, no finished_at, the supplied sum, the returned number and the
\* resolved service, under an id greater than every earlier one, which is
\* the activationId returned; a failed allocation creates none; rows are
\* never deleted and their number, service and sum never change.
C10_OneActivationPerSuccess ==
    /\ [] /\ Len(activations) = Cardinality(Allocated)
          /\ \A h1, h2 \in Allocated :
               h1 # h2 => loc[h1].activationID # loc[h2].activationID
          /\ \A h \in Handlers :
               (IsGetNumber(h) /\ pc[h] = "done") =>
                   /\ Succeeded(h) <=> h \in Allocated
                   /\ Succeeded(h) =>
                        /\ resp[h].activationId = loc[h].activationID
                        /\ resp[h].activationId \in DOMAIN activations
                        /\ LET row == activations[resp[h].activationId] IN
                           /\ PhoneNumbers[row.number_id].number = resp[h].number
                           /\ Services[row.service_id] = req[h].service
                           /\ row.sum = req[h].sum
    /\ [][ /\ Len(activations') >= Len(activations)
           /\ \A a \in DOMAIN activations :
                /\ activations'[a].number_id = activations[a].number_id
                /\ activations'[a].service_id = activations[a].service_id
                /\ activations'[a].sum = activations[a].sum
           /\ Len(activations') > Len(activations) =>
                /\ Len(activations') = Len(activations) + 1
                /\ LET row == activations'[Len(activations')] IN
                   /\ row.status = 0
                   /\ row.finished_at = 0
                   /\ \E h \in Handlers :
                        /\ pc[h] = "gn_create" /\ pc'[h] # "gn_create"
                        /\ loc'[h].activationID = Len(activations')
                        /\ row.number_id = loc[h].phoneNumber
                        /\ Services[row.service_id] = req[h].service
                        /\ row.sum = req[h].sum ]_vars

\* one allocation succeeded, another failed, and there is one activation
C10_Witness ==
    /\ Len(activations) = 1
    /\ \E h \in Handlers : IsGetNumber(h) /\ Succeeded(h)
    /\ \E h \in Handlers : IsGetNumber(h) /\ pc[h] = "done" /\ ~Succeeded(h)

IsPushSMS(h) == req[h].action = "PUSH_SMS"

\* handler h starts in this step, with a Finish call
FinishStarts(h) ==
    pc[h] = "idle" /\ pc'[h] # "idle" /\ req'[h].action = "FINISH_ACTIVATION"

\* C11: Finish(id, status) on an existing activation, the statement not
\* failing, sets the status of that activation to the given value and its
\* finished_at to the current time, for the terminal status and for any
\* other; no activation is added and no other activation changes.
C11_FinishSetsStatusAndFinishedAt ==
    [][ \A h \in Handlers :
          ( /\ FinishStarts(h)
            /\ req'[h].activationId \in DOMAIN activations
            /\ faults' = faults )
          => /\ Len(activations') = Len(activations)
             /\ activations'[req'[h].activationId].status = req'[h].status
             /\ activations'[req'[h].activationId].finished_at = now
             /\ now > 0
             /\ \A a \in DOMAIN activations :
                  a # req'[h].activationId => activations'[a] = activations[a] ]_vars

\* a Finish with the non-terminal status 1 succeeded: the activation has
\* status 1 and a finished_at
C11_Witness ==
    \E h \in Handlers :
        /\ IsFinish(h) /\ req[h].status = 1 /\ Succeeded(h)
        /\ activations[req[h].activationId].status = 1
        /\ activations[req[h].activationId].finished_at # 0

\* C12: a Finish call whose activationId matches no activation row, the
\* store working, is answered ACTIVATION_NOT_FOUND, an answer a store error
\* never gets.
C12_MissingActivationNotFound ==
    \A h \in Handlers :
        ( /\ IsFinish(h) /\ pc[h] = "done" /\ faults = 0
          /\ req[h].activationId \notin DOMAIN activations )
        => resp[h].status = "ACTIVATION_NOT_FOUND"

\* C13: in every reachable state an activation has finished_at set if and
\* only if its status is 3.
C13_FinishedIffTerminal ==
    \A a \in DOMAIN activations :
        activations[a].finished_at # 0 <=> activations[a].status = TerminalStatus

\* C14: once the finished_at of an activation is set, no step of any
\* operation (a Finish with status 1 or 3, an allocation, a pushed message,
\* a deferred mark, release or append) returns it to NULL or removes the row.
C14_FinishedAtNeverCleared ==
    [][ \A a \in DOMAIN activations :
          activations[a].finished_at # 0
              => /\ a \in DOMAIN activations'
                 /\ activations'[a].finished_at # 0 ]_vars

\* a Finish with status 1 succeeded on an activation that had been finished
\* with status 3 (or the other way round), and finished_at is set
C14_Witness ==
    \E h \in Handlers :
        /\ IsFinish(h) /\ Succeeded(h)
        /\ loc[h].prevStatus \in {1, TerminalStatus}
        /\ loc[h].prevStatus # req[h].status
        /\ activations[req[h].activationId].finished_at # 0

\* C15: a PUSH_SMS call whose activationId matches no activation row is
\* answered ACTIVATION_NOT_FOUND, and no sms_messages row with that
\* activation id is written, by the handler or by a goroutine, before the
\* response or after it (the store not failing).
C15_MissingActivationWritesNothing ==
    \A h \in Handlers :
        (IsPushSMS(h) /\ req[h].activationId \notin DOMAIN activations /\ faults = 0) =>
            /\ pc[h] = "done" => resp[h].status = "ACTIVATION_NOT_FOUND"
            /\ \A i \in DOMAIN sms_messages :
                 sms_messages[i].activation_id # req[h].activationId

\* the sms_messages rows that carry the activation id and text of call h
RowsOf(h) ==
    { i \in DOMAIN sms_messages :
        /\ sms_messages[i].activation_id = req[h].activationId
        /\ sms_messages[i].text = req[h].sms }

\* C16: when two PUSH_SMS calls for one activation both answer SUCCESS and
\* the first had returned before the second was made, the row of the first
\* is written before the row of the second (stated for calls whose rows
\* carry what the calls sent, with different texts).
C16_AppendedInCallOrder ==
    \A h1, h2 \in Handlers :
        ( /\ IsPushSMS(h1) /\ IsPushSMS(h2)
          /\ Succeeded(h1) /\ Succeeded(h2)
          /\ req[h1].activationId = req[h2].activationId
          /\ req[h1].sms # req[h2].sms
          /\ h1 \in loc[h2].before )
        => \A i \in RowsOf(h1), j \in RowsOf(h2) :
               /\ i < j
               /\ sms_messages[i].received_at <= sms_messages[j].received_at

\* the rows of the store that belong to the activation asked for
LsMatching == { i \in DOMAIN sms_messages : sms_messages[i].activation_id = lsId }

TransientErrors ==
    { NewError(<<"database", "is", "locked">>),
      NewError(<<"database", "is", "locked", "(5)", "(", "SQLITE_BUSY", ")">>),
      NewError(<<"database", "table", "is", "locked">>) }

StoreBusy == NewError(<<"database", "locked", "after", "5", "attempts">>)

\* C19: ExecuteWithRetry makes at most 5 attempts and returns; no attempt
\* follows one that succeeded, after which it returns nil; when 5 attempts
\* were made and all failed with a lock or busy error it returns the error
\* "database locked after 5 attempts".
C19_RetryTerminatesWithinCeiling ==
    /\ [] /\ Len(rtErrs) <= 5
          /\ \A k \in 1..Len(rtErrs) :
               rtErrs[k].nil => /\ k = Len(rtErrs)
                                /\ rtPc = "returned"
                                /\ rtResult.nil
          /\ ( /\ rtPc = "returned"
               /\ Len(rtErrs) = 5
               /\ \A k \in 1..5 : rtErrs[k] \in TransientErrors )
             => rtResult = StoreBusy
    /\ <>(rtPc = "returned")

\* five attempts failed with lock errors and the call gave up
C19_Witness ==
    /\ rtPc = "returned"
    /\ Len(rtErrs) = 5
    /\ \A k \in 1..5 : rtErrs[k] \in TransientErrors
    /\ rtResult = StoreBusy

\* an attempt failed with an error that is no lock or busy error
PermanentAt(k) == ~rtErrs[k].nil /\ rtErrs[k] \notin TransientErrors

\* C20 as claimed: after an attempt that failed with a permanent error the
\* call has returned, with no further attempt and no wait, and the error
\* returned is that error itself.
C20_PermanentReturnedUntouched ==
    \A k \in 1..Len(rtErrs) :
        PermanentAt(k) => /\ k = Len(rtErrs)
                          /\ rtPc = "returned"
                          /\ Len(rtWaits) = k - 1
                          /\ rtResult = rtErrs[k]

\* C20, amended: after an attempt that failed with a permanent error the
\* call has returned, with no further attempt and no wait, and the error
\* returned is a new error: its message is "database operation failed: "
\* followed by the message of the store's error, and the error it wraps is
\* the store's error.
C20_PermanentReturnedWrapped ==
    \A k \in 1..Len(rtErrs) :
        PermanentAt(k) => /\ k = Len(rtErrs)
                          /\ rtPc = "returned"
                          /\ Len(rtWaits) = k - 1
                          /\ ~rtResult.nil
                          /\ rtResult.msg = <<"database", "operation", "failed:">>
                                                \o rtErrs[k].msg
                          /\ rtResult.cause = <<rtErrs[k]>>
                          /\ rtResult # rtErrs[k]

\* the third attempt failed with a constraint violation after two waits
C20_Witness ==
    /\ Len(rtErrs) = 3
    /\ rtErrs[3] = NewError(<<"constraint", "failed:", "UNIQUE">>)
    /\ rtWaits = <<100, 200>>
    /\ rtPc = "returned"

\* C21 as claimed: once the caller's context is done no statement is started;
\* an attempt in progress at that moment is not interrupted: it ends with the
\* outcome and after the time the store gives it under a live context; and
\* a call that returns from the loop or the wait with attempts left returns
\* the context's error, bare or wrapped.
C21_AbortedBetweenAttempts ==
    [][rtCtx # "live" =>
         /\ rtPc' = "exec" => rtPc = "exec"
         /\ (rtPc = "exec" /\ rtPc' # "exec")
              => [err |-> rtErrs'[Len(rtErrs')], ms |-> rtTook'[Len(rtTook')]]
                     \in ExecContext("live")
         /\ ( /\ rtPc \in {"loop", "wait"}
              /\ LoopContinues(rtAttempt)
              /\ rtPc' = "returned" )
              => \/ rtResult' = CtxErr(rtCtx)
                 \/ rtResult'.cause = <<CtxErr(rtCtx)>>]_vars

\* handler h comes to answer DATABASE_ERROR in this step
SurfacesStoreError(h) ==
    \/ resp'[h].status = "DATABASE_ERROR" /\ resp[h].status # "DATABASE_ERROR"
    \/ loc'[h].answer = "DATABASE_ERROR" /\ loc[h].answer # "DATABASE_ERROR"

\* C22 as claimed: the failure of a statement of Allocate, Finish or
\* RecordSMS is answered DATABASE_ERROR only once the retry budget is used
\* up, that is when maxRetries executions have failed.
C22_SurfacedAfterRetries ==
    [][\A h \in Handlers :
         (faults' # faults /\ SurfacesStoreError(h)) => faults' >= maxRetries]_vars

\* the answer handler h has settled on after this step
AnswerAfter(h) == IF pc'[h] = "done" THEN resp'[h].status ELSE loc'[h].answer

\* C23 as claimed: when the statement of a synchronous step (the
\* available-number query, the service lookup, the activation insert, the
\* status update, the existence check) fails, the handler answers
\* DATABASE_ERROR.
C23_StoreFailureIsStoreError ==
    [][\A h \in Handlers :
         ( /\ faults' # faults
           /\ pc[h] \in {"idle", "gn_service", "gn_create"}
           /\ pc'[h] # pc[h] )
         => AnswerAfter(h) = "DATABASE_ERROR"]_vars

\* C25 as claimed: when an allocation has answered SUCCESS with a number, an
\* allocation that started after that answer, no Finish call having been
\* made, does not answer SUCCESS with that number, whether the mark of the
\* first has run, is still to run or has failed.
C25_NoReallocationAfterSuccess ==
    \A h1, h2 \in Started :
        ( /\ h1 < h2
          /\ IsGetNumber(h1) /\ Succeeded(h1)
          /\ IsGetNumber(h2) /\ Succeeded(h2) )
        => resp[h2].number # resp[h1].number

\* the PUSH_SMS calls that answer SUCCESS: a pooled handler has settled on
\* its answer when it starts the goroutine
PushSucceeded ==
    { h \in Started : /\ IsPushSMS(h)
                      /\ IF pooled THEN loc[h].answer = "SUCCESS" ELSE Succeeded(h) }

\* C26 as claimed: every sms_messages row carries the activation id and the
\* text of a PUSH_SMS call that answers SUCCESS, and once nothing is running
\* (the store not failing) the rows that carry the id and text of such a
\* call are as many as the successful calls that sent that id and text.
C26_RowsAreSuccessfulCalls ==
    /\ \A i \in DOMAIN sms_messages : \E h \in PushSucceeded : i \in RowsOf(h)
    /\ (Quiescent /\ faults = 0) =>
          \A h \in PushSucceeded :
              Cardinality(RowsOf(h)) =
                  Cardinality({g \in PushSucceeded :
                                  /\ req[g].activationId = req[h].activationId
                                  /\ req[g].sms = req[h].sms})

\* the number of call h: the candidate of an allocation, the number of the
\* activation a Finish call names
OwnNumber(h) ==
    IF req'[h].action = "GET_NUMBER" THEN loc'[h].phoneNumber
    ELSE IF req'[h].activationId \in DOMAIN activations
    THEN activations[req'[h].activationId].number_id
    ELSE 0

\* C27 as claimed: a step of a handler or of its goroutine changes the
\* available flag of no number but the number of that call; an allocation
\* sets the flag to false, a Finish call, which then has status 3, to true.
C27_DeferredWriteOnOwnNumber ==
    [][\A h \in Handlers :
         (pc'[h] # pc[h] \/ gpc'[h] # gpc[h]) =>
             \A n \in NumIds :
                 available'[n] # available[n] =>
                     /\ n = OwnNumber(h)
                     /\ available'[n] = (req'[h].action # "GET_NUMBER")
                     /\ req'[h].action = "FINISH_ACTIVATION"
                            => req'[h].status = TerminalStatus]_vars

\* C28: no step of a Finish call with a status other than 3, nor of a
\* goroutine of it, changes an available flag, and such a call starts no
\* release, neither in the handler nor in a goroutine; no step of a PUSH_SMS
\* call or of its goroutine changes an available flag or an activation row.
C28_NonTerminalFinishAndPushFrame ==
    [][\A h \in Handlers :
         (pc'[h] # pc[h] \/ gpc'[h] # gpc[h]) =>
             /\ (req'[h].action = "FINISH_ACTIVATION" /\ req'[h].status # 3) =>
                    /\ available' = available
                    /\ gpc'[h] = "none"
                    /\ pc'[h] # "fa_release"
             /\ req'[h].action = "PUSH_SMS" =>
                    /\ available' = available
                    /\ activations' = activations]_vars

\* Finish(1, 1) and a PUSH_SMS to activation 1 have succeeded, the message
\* is stored, and the number of activation 1 is still held
C28_Witness ==
    /\ \E h \in Started : IsFinish(h) /\ req[h].status = 1 /\ Succeeded(h)
    /\ \E h \in Started : IsPushSMS(h) /\ Succeeded(h) /\ RowsOf(h) # {}
    /\ activations[1].status = 1
    /\ ~available[activations[1].number_id]
    /\ Quiescent

\* number n is available and of the country and operator request r names
Matches(n, r) ==
    /\ available[n]
    /\ PhoneNumbers[n].country = r.country
    /\ PhoneNumbers[n].operator = r.operator

\* handler h makes its selection in this step
Selects(h) == pc[h] = "idle" /\ pc'[h] # "idle" /\ req'[h].action = "GET_NUMBER"

\* C29: the candidate an allocation selects is, at that moment, available
\* and of the requested country and operator, and the number of a SUCCESS
\* answer is the candidate's; when no number matches the call is answered
\* NO_NUMBERS1 and no row of the store changes; and whenever a request can
\* be made, every available number that matches it can be selected for it.
C29_SelectionMatchesRequest ==
    /\ [][\A h \in Handlers :
            /\ Selects(h) =>
                  /\ loc'[h].phoneNumber # 0 => Matches(loc'[h].phoneNumber, req'[h])
                  /\ (\A n \in NumIds : ~Matches(n, req'[h])) =>
                         /\ pc'[h] = "done"
                         /\ resp'[h].status = "NO_NUMBERS1"
                         /\ available' = available
                         /\ activations' = activations
                         /\ sms_messages' = sms_messages
            /\ (req'[h].action = "GET_NUMBER" /\ resp'[h].status = "SUCCESS") =>
                  /\ loc'[h].phoneNumber # 0
                  /\ resp'[h].number = PhoneNumbers[loc'[h].phoneNumber].number]_vars
    /\ [](\A r \in SelectWorkload.requests : \A n \in NumIds :
             (nreq < MaxRequests /\ Matches(n, r)) =>
                 ENABLED ( /\ GN_Select(nreq + 1, SelectWorkload)
                           /\ req'[nreq + 1] = r
                           /\ loc'[nreq + 1].phoneNumber = n ))

\* the first allocation was answered with the second "rus" number while the
\* first one was available, and the request for the operator "mts" was
\* answered NO_NUMBERS1
C29_Witness ==
    /\ nreq = 2
    /\ faults = 0
    /\ Succeeded(1) /\ resp[1].number = PhoneNumbers[2].number
    /\ available[1]
    /\ req[2].operator = "mts" /\ resp[2].status = "NO_NUMBERS1"
    /\ activations # <<>>

\* the step in which the request of handler h is taken up
Starts(h) == pc[h] = "idle" /\ pc'[h] # "idle"

\* the step calls no handler: nothing but the response is written
NoHandlerRuns(h) ==
    /\ pc'[h] = "done"
    /\ UNCHANGED <<available, activations, sms_messages, now, faults, loc, gpc, gval, pool>>

\* C24: of the POST requests whose body is a JSON object, one whose key is
\* not the configured key is answered INVALID_KEY, whatever its action, no
\* handler runs and the store is unchanged; one with the configured key and
\* an unknown action is answered INVALID_ACTION and no handler runs; one
\* with the configured key and a known action is taken up by the handler of
\* that action and by no other.
C24_KeyCheckedBeforeAction ==
    [][\A h \in Handlers :
         (Starts(h) /\ req'[h].method = "POST" /\ req'[h].json) =>
             /\ req'[h].key # APIKey =>
                    NoHandlerRuns(h) /\ resp'[h].status = "INVALID_KEY"
             /\ (req'[h].key = APIKey /\ req'[h].action \notin Actions) =>
                    NoHandlerRuns(h) /\ resp'[h].status = "INVALID_ACTION"
             /\ (req'[h].key = APIKey /\ req'[h].action \in Actions) =>
                    /\ resp'[h].status \notin {"INVALID_KEY", "INVALID_ACTION"}
                    /\ GS_Query(h, DispatchWorkload) <=> req'[h].action = "GET_SERVICES"
                    /\ GN_Select(h, DispatchWorkload) <=> req'[h].action = "GET_NUMBER"
                    /\ FA_Update(h, DispatchWorkload)
                           <=> req'[h].action = "FINISH_ACTIVATION"
                    /\ PS_Check(h, DispatchWorkload) <=> req'[h].action = "PUSH_SMS"]_vars

\* an allocation request with the key "123" was answered INVALID_KEY, a
\* request for "GET_SERVICE" with the configured key INVALID_ACTION, and the
\* store is as it was seeded
C24_Witness ==
    /\ nreq = 2
    /\ req[1].action = "GET_NUMBER" /\ req[1].key = "123"
    /\ resp[1].status = "INVALID_KEY"
    /\ req[2].action = "GET_SERVICE" /\ req[2].key = APIKey
    /\ resp[2].status = "INVALID_ACTION"
    /\ \A n \in NumIds : available[n]
    /\ activations = <<>>

\* the available numbers of country c and operator o
AvailableOf(c, o) ==
    { n \in NumIds : /\ available[n]
                     /\ PhoneNumbers[n].country = c
                     /\ PhoneNumbers[n].operator = o }

\* the entries of a countryList for country c
EntriesOf(list, c) == { i \in DOMAIN list : list[i].country = c }

\* C31: a GET_SERVICES call changes no row of the store; when no statement
\* or row of it fails it answers SUCCESS with a countryList in which every
\* country and operator that has an available number appears once, with the
\* number of available numbers of that country and operator as the count
\* under every service code, and in which a country and operator that has
\* no available number does not appear.
C31_CatalogCountsAvailable ==
    [][\A h \in Handlers :
         (Starts(h) /\ req'[h].action = "GET_SERVICES" /\ Rejection(req'[h]) = "") =>
             /\ pc'[h] = "done"
             /\ UNCHANGED <<available, activations, sms_messages>>
             /\ faults' = faults =>
                  LET list == resp'[h].countryList IN
                  /\ resp'[h].status = "SUCCESS"
                  /\ \A c \in {"rus", "uzb", "kaz"} :
                       /\ Cardinality(EntriesOf(list, c)) <= 1
                       /\ \A o \in {"any", "mts"} :
                            IF AvailableOf(c, o) # {}
                            THEN \E i \in EntriesOf(list, c) :
                                   /\ o \in DOMAIN list[i].operatorMap
                                   /\ DOMAIN list[i].operatorMap[o]
                                          = {Services[k] : k \in 1..Len(Services)}
                                   /\ \A sv \in DOMAIN list[i].operatorMap[o] :
                                        list[i].operatorMap[o][sv]
                                            = Cardinality(AvailableOf(c, o))
                            ELSE \A i \in EntriesOf(list, c) :
                                   o \notin DOMAIN list[i].operatorMap
                  /\ \A i \in DOMAIN list : list[i].country \in {"rus", "uzb"}]_vars

\* the "uzb" number and one "rus" number are rented, and the catalog was
\* answered with one "rus" number under every service and no "uzb" entry
C31_Witness ==
    \E h \in Started :
        /\ req[h].action = "GET_SERVICES"
        /\ Succeeded(h)
        /\ Len(resp[h].countryList) = 1
        /\ resp[h].countryList[1].country = "rus"
        /\ resp[h].countryList[1].operatorMap["any"]["tg"] = 2
        /\ ~available[3]
        /\ faults = 0

\* C30: the waits slept through are, in order, 100, 200, 400 and 800 ms, at
\* most four; the k-th wait follows the k-th attempt, which failed with a
\* lock or busy error, and no wait precedes the first attempt or follows the
\* last one; no attempt lasts longer than 10 s, and one that lasts 10 s ended
\* with the deadline's error.
C30_BackoffSchedule ==
    /\ Len(rtWaits) <= 4
    /\ \A k \in 1..Len(rtWaits) :
         /\ rtWaits[k] = <<100, 200, 400, 800>>[k]
         /\ k <= Len(rtErrs)
         /\ rtErrs[k] \in TransientErrors
    /\ Len(rtWaits) <= Len(rtErrs)
    /\ rtPc \in {"wait", "returned"} => Len(rtWaits) = Len(rtErrs) - 1
    /\ rtPc = "exec" => Len(rtWaits) = Len(rtErrs)
    /\ Len(rtTook) = Len(rtErrs)
    /\ \A k \in 1..Len(rtTook) :
         /\ rtTook[k] <= 10000
         /\ rtTook[k] = 10000 => rtErrs[k] = NewError(<<"context", "deadline", "exceeded">>)

\* four lock errors, the four waits, and a fifth attempt cut off after 10 s
C30_Witness ==
    /\ rtPc = "returned"
    /\ rtWaits = <<100, 200, 400, 800>>
    /\ \A k \in 1..4 : rtErrs[k] \in TransientErrors
    /\ rtTook[5] = 10000

\* C17: in every reachable state every sms_messages row references an
\* activation row that exists.
C17_SmsReferencesActivation ==
    \A i \in DOMAIN sms_messages :
        sms_messages[i].activation_id \in DOMAIN activations

====
